-------------------------- MODULE Spec2Model --------------------------
(***************************************************************************)
(* Model of the RLM bridge server (src/rlm_bridge/server.py): the message  *)
(* adapter messages_to_context, the orchestrator run_rlm_completion and    *)
(* the /completion request handler.                                        *)
(*                                                                         *)
(* A Python str is the sequence of its code points; Str(s) is the str a    *)
(* literal of this module writes.  A Python value is a tagged record:      *)
(* JNull (None), JBool, JInt, JFloat, JStr, JList, JDict (its items in     *)
(* insertion order) and, for what the engine returns, an object with       *)
(* attributes.  Missing stands for a key or an attribute that is not       *)
(* there.  A call that may raise returns [ok |-> TRUE, ...] or             *)
(* [ok |-> FALSE, exc |-> <exception>].  The behaviour of the built-ins    *)
(* is that of CPython 3.11 (Unicode 14).                                   *)
(***************************************************************************)
EXTENDS Integers, Sequences, FiniteSets, TLC

(***************************************************************************)
(* Bounds of the model.                                                    *)
(***************************************************************************)
\* longest messages list drawn as an input
MaxTurns == 3
\* number of /completion requests that may be in flight together
NumReq == 2

(***************************************************************************)
(* Text.                                                                   *)
(***************************************************************************)
\* the characters of code 32..95 and of code 97..126, in the order of their codes
PrintableLow ==
  " !\"#$%&'()*+,-./0123456789:;<=>?@ABCDEFGHIJKLMNOPQRSTUVWXYZ[\\]^_"
PrintableHigh == "abcdefghijklmnopqrstuvwxyz{|}~"

\* the characters of s with their codes, the first of code base + 1
CharCodes(s, base) == {<<SubSeq(s, i, i), base + i>> : i \in 1..Len(s)}

\* ord(c) for the characters a literal of this module writes
OrdTable ==
  LET pairs == CharCodes(PrintableLow, 31) \cup CharCodes(PrintableHigh, 96)
                 \cup {<<"\n", 10>>}
  IN [c \in {p[1] : p \in pairs} |-> (CHOOSE p \in pairs : p[1] = c)[2]]

Ord(c) == OrdTable[c]

\* the str whose characters the literal s writes
Str(s) == [i \in 1..Len(s) |-> Ord(SubSeq(s, i, i))]

RECURSIVE Decimal(_)
\* the decimal digits of n >= 0
Decimal(n) ==
  IF n < 10 THEN <<48 + n>> ELSE Decimal(n \div 10) \o <<48 + (n % 10)>>

\* one digit of a hexadecimal escape
HexDigit(d) == IF d < 10 THEN 48 + d ELSE 87 + d

RECURSIVE Hex(_, _)
\* n in hexadecimal, width digits
Hex(n, width) ==
  IF width = 0 THEN <<>> ELSE Hex(n \div 16, width - 1) \o <<HexDigit(n % 16)>>

RECURSIVE JoinFrom(_, _, _)
\* sep.join(parts[i-1:])
JoinFrom(sep, parts, i) ==
  IF i > Len(parts) THEN <<>>
  ELSE IF i = Len(parts) THEN parts[i]
  ELSE parts[i] \o sep \o JoinFrom(sep, parts, i + 1)

\* sep.join(parts)
Join(sep, parts) == JoinFrom(sep, parts, 1)

(***************************************************************************)
(* Unicode data of the built-ins (CPython 3.11, Unicode 14).               *)
(***************************************************************************)
\* str.upper() of one code point above 127 that maps to one code point:
\* <<lo, hi, step, delta>> maps lo, lo+step, .., hi to itself plus delta
UpperRuns ==
  <<
   <<181, 181, 1, 743>>, <<224, 246, 1, -32>>, <<248, 254, 1, -32>>, <<255, 255, 1, 121>>,
   <<257, 303, 2, -1>>, <<305, 305, 1, -232>>, <<307, 311, 2, -1>>, <<314, 328, 2, -1>>,
   <<331, 375, 2, -1>>, <<378, 382, 2, -1>>, <<383, 383, 1, -300>>, <<384, 384, 1, 195>>,
   <<387, 389, 2, -1>>, <<392, 392, 1, -1>>, <<396, 396, 1, -1>>, <<402, 402, 1, -1>>,
   <<405, 405, 1, 97>>, <<409, 409, 1, -1>>, <<410, 410, 1, 163>>, <<414, 414, 1, 130>>,
   <<417, 421, 2, -1>>, <<424, 424, 1, -1>>, <<429, 429, 1, -1>>, <<432, 432, 1, -1>>,
   <<436, 438, 2, -1>>, <<441, 441, 1, -1>>, <<445, 445, 1, -1>>, <<447, 447, 1, 56>>,
   <<453, 453, 1, -1>>, <<454, 454, 1, -2>>, <<456, 456, 1, -1>>, <<457, 457, 1, -2>>,
   <<459, 459, 1, -1>>, <<460, 460, 1, -2>>, <<462, 476, 2, -1>>, <<477, 477, 1, -79>>,
   <<479, 495, 2, -1>>, <<498, 498, 1, -1>>, <<499, 499, 1, -2>>, <<501, 501, 1, -1>>,
   <<505, 543, 2, -1>>, <<547, 563, 2, -1>>, <<572, 572, 1, -1>>, <<575, 576, 1, 10815>>,
   <<578, 578, 1, -1>>, <<583, 591, 2, -1>>, <<592, 592, 1, 10783>>, <<593, 593, 1, 10780>>,
   <<594, 594, 1, 10782>>, <<595, 595, 1, -210>>, <<596, 596, 1, -206>>, <<598, 599, 1, -205>>,
   <<601, 601, 1, -202>>, <<603, 603, 1, -203>>, <<604, 604, 1, 42319>>, <<608, 608, 1, -205>>,
   <<609, 609, 1, 42315>>, <<611, 611, 1, -207>>, <<613, 613, 1, 42280>>, <<614, 614, 1, 42308>>,
   <<616, 616, 1, -209>>, <<617, 617, 1, -211>>, <<618, 618, 1, 42308>>, <<619, 619, 1, 10743>>,
   <<620, 620, 1, 42305>>, <<623, 623, 1, -211>>, <<625, 625, 1, 10749>>, <<626, 626, 1, -213>>,
   <<629, 629, 1, -214>>, <<637, 637, 1, 10727>>, <<640, 640, 1, -218>>, <<642, 642, 1, 42307>>,
   <<643, 643, 1, -218>>, <<647, 647, 1, 42282>>, <<648, 648, 1, -218>>, <<649, 649, 1, -69>>,
   <<650, 651, 1, -217>>, <<652, 652, 1, -71>>, <<658, 658, 1, -219>>, <<669, 669, 1, 42261>>,
   <<670, 670, 1, 42258>>, <<837, 837, 1, 84>>, <<881, 883, 2, -1>>, <<887, 887, 1, -1>>,
   <<891, 893, 1, 130>>, <<940, 940, 1, -38>>, <<941, 943, 1, -37>>, <<945, 961, 1, -32>>,
   <<962, 962, 1, -31>>, <<963, 971, 1, -32>>, <<972, 972, 1, -64>>, <<973, 974, 1, -63>>,
   <<976, 976, 1, -62>>, <<977, 977, 1, -57>>, <<981, 981, 1, -47>>, <<982, 982, 1, -54>>,
   <<983, 983, 1, -8>>, <<985, 1007, 2, -1>>, <<1008, 1008, 1, -86>>, <<1009, 1009, 1, -80>>,
   <<1010, 1010, 1, 7>>, <<1011, 1011, 1, -116>>, <<1013, 1013, 1, -96>>, <<1016, 1016, 1, -1>>,
   <<1019, 1019, 1, -1>>, <<1072, 1103, 1, -32>>, <<1104, 1119, 1, -80>>, <<1121, 1153, 2, -1>>,
   <<1163, 1215, 2, -1>>, <<1218, 1230, 2, -1>>, <<1231, 1231, 1, -15>>, <<1233, 1327, 2, -1>>,
   <<1377, 1414, 1, -48>>, <<4304, 4346, 1, 3008>>, <<4349, 4351, 1, 3008>>, <<5112, 5117, 1, -8>>,
   <<7296, 7296, 1, -6254>>, <<7297, 7297, 1, -6253>>, <<7298, 7298, 1, -6244>>, <<7299, 7300, 1, -6242>>,
   <<7301, 7301, 1, -6243>>, <<7302, 7302, 1, -6236>>, <<7303, 7303, 1, -6181>>, <<7304, 7304, 1, 35266>>,
   <<7545, 7545, 1, 35332>>, <<7549, 7549, 1, 3814>>, <<7566, 7566, 1, 35384>>, <<7681, 7829, 2, -1>>,
   <<7835, 7835, 1, -59>>, <<7841, 7935, 2, -1>>, <<7936, 7943, 1, 8>>, <<7952, 7957, 1, 8>>,
   <<7968, 7975, 1, 8>>, <<7984, 7991, 1, 8>>, <<8000, 8005, 1, 8>>, <<8017, 8017, 1, 8>>,
   <<8019, 8019, 1, 8>>, <<8021, 8021, 1, 8>>, <<8023, 8023, 1, 8>>, <<8032, 8039, 1, 8>>,
   <<8048, 8049, 1, 74>>, <<8050, 8053, 1, 86>>, <<8054, 8055, 1, 100>>, <<8056, 8057, 1, 128>>,
   <<8058, 8059, 1, 112>>, <<8060, 8061, 1, 126>>, <<8112, 8113, 1, 8>>, <<8126, 8126, 1, -7205>>,
   <<8144, 8145, 1, 8>>, <<8160, 8161, 1, 8>>, <<8165, 8165, 1, 7>>, <<8526, 8526, 1, -28>>,
   <<8560, 8575, 1, -16>>, <<8580, 8580, 1, -1>>, <<9424, 9449, 1, -26>>, <<11312, 11359, 1, -48>>,
   <<11361, 11361, 1, -1>>, <<11365, 11365, 1, -10795>>, <<11366, 11366, 1, -10792>>, <<11368, 11372, 2, -1>>,
   <<11379, 11379, 1, -1>>, <<11382, 11382, 1, -1>>, <<11393, 11491, 2, -1>>, <<11500, 11502, 2, -1>>,
   <<11507, 11507, 1, -1>>, <<11520, 11557, 1, -7264>>, <<11559, 11559, 1, -7264>>, <<11565, 11565, 1, -7264>>,
   <<42561, 42605, 2, -1>>, <<42625, 42651, 2, -1>>, <<42787, 42799, 2, -1>>, <<42803, 42863, 2, -1>>,
   <<42874, 42876, 2, -1>>, <<42879, 42887, 2, -1>>, <<42892, 42892, 1, -1>>, <<42897, 42899, 2, -1>>,
   <<42900, 42900, 1, 48>>, <<42903, 42921, 2, -1>>, <<42933, 42947, 2, -1>>, <<42952, 42954, 2, -1>>,
   <<42961, 42961, 1, -1>>, <<42967, 42969, 2, -1>>, <<42998, 42998, 1, -1>>, <<43859, 43859, 1, -928>>,
   <<43888, 43967, 1, -38864>>, <<65345, 65370, 1, -32>>, <<66600, 66639, 1, -40>>, <<66776, 66811, 1, -40>>,
   <<66967, 66977, 1, -39>>, <<66979, 66993, 1, -39>>, <<66995, 67001, 1, -39>>, <<67003, 67004, 1, -39>>,
   <<68800, 68850, 1, -64>>, <<71872, 71903, 1, -32>>, <<93792, 93823, 1, -32>>, <<125218, 125251, 1, -34>>
  >>

\* str.upper() of the code points that map to several: <<code point, its upper case>>
UpperMulti ==
  <<
   <<223, <<83, 83>>>>, <<329, <<700, 78>>>>, <<496, <<74, 780>>>>, <<912, <<921, 776, 769>>>>,
   <<944, <<933, 776, 769>>>>, <<1415, <<1333, 1362>>>>, <<7830, <<72, 817>>>>, <<7831, <<84, 776>>>>,
   <<7832, <<87, 778>>>>, <<7833, <<89, 778>>>>, <<7834, <<65, 702>>>>, <<8016, <<933, 787>>>>,
   <<8018, <<933, 787, 768>>>>, <<8020, <<933, 787, 769>>>>, <<8022, <<933, 787, 834>>>>, <<8064, <<7944, 921>>>>,
   <<8065, <<7945, 921>>>>, <<8066, <<7946, 921>>>>, <<8067, <<7947, 921>>>>, <<8068, <<7948, 921>>>>,
   <<8069, <<7949, 921>>>>, <<8070, <<7950, 921>>>>, <<8071, <<7951, 921>>>>, <<8072, <<7944, 921>>>>,
   <<8073, <<7945, 921>>>>, <<8074, <<7946, 921>>>>, <<8075, <<7947, 921>>>>, <<8076, <<7948, 921>>>>,
   <<8077, <<7949, 921>>>>, <<8078, <<7950, 921>>>>, <<8079, <<7951, 921>>>>, <<8080, <<7976, 921>>>>,
   <<8081, <<7977, 921>>>>, <<8082, <<7978, 921>>>>, <<8083, <<7979, 921>>>>, <<8084, <<7980, 921>>>>,
   <<8085, <<7981, 921>>>>, <<8086, <<7982, 921>>>>, <<8087, <<7983, 921>>>>, <<8088, <<7976, 921>>>>,
   <<8089, <<7977, 921>>>>, <<8090, <<7978, 921>>>>, <<8091, <<7979, 921>>>>, <<8092, <<7980, 921>>>>,
   <<8093, <<7981, 921>>>>, <<8094, <<7982, 921>>>>, <<8095, <<7983, 921>>>>, <<8096, <<8040, 921>>>>,
   <<8097, <<8041, 921>>>>, <<8098, <<8042, 921>>>>, <<8099, <<8043, 921>>>>, <<8100, <<8044, 921>>>>,
   <<8101, <<8045, 921>>>>, <<8102, <<8046, 921>>>>, <<8103, <<8047, 921>>>>, <<8104, <<8040, 921>>>>,
   <<8105, <<8041, 921>>>>, <<8106, <<8042, 921>>>>, <<8107, <<8043, 921>>>>, <<8108, <<8044, 921>>>>,
   <<8109, <<8045, 921>>>>, <<8110, <<8046, 921>>>>, <<8111, <<8047, 921>>>>, <<8114, <<8122, 921>>>>,
   <<8115, <<913, 921>>>>, <<8116, <<902, 921>>>>, <<8118, <<913, 834>>>>, <<8119, <<913, 834, 921>>>>,
   <<8124, <<913, 921>>>>, <<8130, <<8138, 921>>>>, <<8131, <<919, 921>>>>, <<8132, <<905, 921>>>>,
   <<8134, <<919, 834>>>>, <<8135, <<919, 834, 921>>>>, <<8140, <<919, 921>>>>, <<8146, <<921, 776, 768>>>>,
   <<8147, <<921, 776, 769>>>>, <<8150, <<921, 834>>>>, <<8151, <<921, 776, 834>>>>, <<8162, <<933, 776, 768>>>>,
   <<8163, <<933, 776, 769>>>>, <<8164, <<929, 787>>>>, <<8166, <<933, 834>>>>, <<8167, <<933, 776, 834>>>>,
   <<8178, <<8186, 921>>>>, <<8179, <<937, 921>>>>, <<8180, <<911, 921>>>>, <<8182, <<937, 834>>>>,
   <<8183, <<937, 834, 921>>>>, <<8188, <<937, 921>>>>, <<64256, <<70, 70>>>>, <<64257, <<70, 73>>>>,
   <<64258, <<70, 76>>>>, <<64259, <<70, 70, 73>>>>, <<64260, <<70, 70, 76>>>>, <<64261, <<83, 84>>>>,
   <<64262, <<83, 84>>>>, <<64275, <<1348, 1350>>>>, <<64276, <<1348, 1333>>>>, <<64277, <<1348, 1339>>>>,
   <<64278, <<1358, 1350>>>>, <<64279, <<1348, 1341>>>>
  >>

\* the digit 0 of each set of decimal digits above 127; 1..9 follow it
DecimalZeros ==
  {
   1632, 1776, 1984, 2406, 2534, 2662, 2790, 2918, 3046, 3174,
   3302, 3430, 3558, 3664, 3792, 3872, 4160, 4240, 6112, 6160,
   6470, 6608, 6784, 6800, 6992, 7088, 7232, 7248, 42528, 43216,
   43264, 43472, 43504, 43600, 44016, 65296, 66720, 68912, 69734, 69872,
   69942, 70096, 70384, 70736, 70864, 71248, 71360, 71472, 71904, 72016,
   72784, 73040, 73120, 92768, 92864, 93008, 120782, 120792, 120802, 120812,
   120822, 123200, 123632, 125264, 130032
  }

\* the blanks int() strips
IntSpaces ==
  {9, 10, 11, 12, 13, 32, 133, 160, 5760, 8192, 8193, 8194, 8195, 8196, 8197, 8198, 8199, 8200, 8201, 8202, 8232, 8233, 8239, 8287, 12288}

\* the ranges <<lo, hi>> of the code points above 127 repr() escapes
Nonprintable ==
  <<
   <<128, 160>>, <<173, 173>>, <<888, 889>>, <<896, 899>>, <<907, 907>>,
   <<909, 909>>, <<930, 930>>, <<1328, 1328>>, <<1367, 1368>>, <<1419, 1420>>,
   <<1424, 1424>>, <<1480, 1487>>, <<1515, 1518>>, <<1525, 1541>>, <<1564, 1564>>,
   <<1757, 1757>>, <<1806, 1807>>, <<1867, 1868>>, <<1970, 1983>>, <<2043, 2044>>,
   <<2094, 2095>>, <<2111, 2111>>, <<2140, 2141>>, <<2143, 2143>>, <<2155, 2159>>,
   <<2191, 2199>>, <<2274, 2274>>, <<2436, 2436>>, <<2445, 2446>>, <<2449, 2450>>,
   <<2473, 2473>>, <<2481, 2481>>, <<2483, 2485>>, <<2490, 2491>>, <<2501, 2502>>,
   <<2505, 2506>>, <<2511, 2518>>, <<2520, 2523>>, <<2526, 2526>>, <<2532, 2533>>,
   <<2559, 2560>>, <<2564, 2564>>, <<2571, 2574>>, <<2577, 2578>>, <<2601, 2601>>,
   <<2609, 2609>>, <<2612, 2612>>, <<2615, 2615>>, <<2618, 2619>>, <<2621, 2621>>,
   <<2627, 2630>>, <<2633, 2634>>, <<2638, 2640>>, <<2642, 2648>>, <<2653, 2653>>,
   <<2655, 2661>>, <<2679, 2688>>, <<2692, 2692>>, <<2702, 2702>>, <<2706, 2706>>,
   <<2729, 2729>>, <<2737, 2737>>, <<2740, 2740>>, <<2746, 2747>>, <<2758, 2758>>,
   <<2762, 2762>>, <<2766, 2767>>, <<2769, 2783>>, <<2788, 2789>>, <<2802, 2808>>,
   <<2816, 2816>>, <<2820, 2820>>, <<2829, 2830>>, <<2833, 2834>>, <<2857, 2857>>,
   <<2865, 2865>>, <<2868, 2868>>, <<2874, 2875>>, <<2885, 2886>>, <<2889, 2890>>,
   <<2894, 2900>>, <<2904, 2907>>, <<2910, 2910>>, <<2916, 2917>>, <<2936, 2945>>,
   <<2948, 2948>>, <<2955, 2957>>, <<2961, 2961>>, <<2966, 2968>>, <<2971, 2971>>,
   <<2973, 2973>>, <<2976, 2978>>, <<2981, 2983>>, <<2987, 2989>>, <<3002, 3005>>,
   <<3011, 3013>>, <<3017, 3017>>, <<3022, 3023>>, <<3025, 3030>>, <<3032, 3045>>,
   <<3067, 3071>>, <<3085, 3085>>, <<3089, 3089>>, <<3113, 3113>>, <<3130, 3131>>,
   <<3141, 3141>>, <<3145, 3145>>, <<3150, 3156>>, <<3159, 3159>>, <<3163, 3164>>,
   <<3166, 3167>>, <<3172, 3173>>, <<3184, 3190>>, <<3213, 3213>>, <<3217, 3217>>,
   <<3241, 3241>>, <<3252, 3252>>, <<3258, 3259>>, <<3269, 3269>>, <<3273, 3273>>,
   <<3278, 3284>>, <<3287, 3292>>, <<3295, 3295>>, <<3300, 3301>>, <<3312, 3312>>,
   <<3315, 3327>>, <<3341, 3341>>, <<3345, 3345>>, <<3397, 3397>>, <<3401, 3401>>,
   <<3408, 3411>>, <<3428, 3429>>, <<3456, 3456>>, <<3460, 3460>>, <<3479, 3481>>,
   <<3506, 3506>>, <<3516, 3516>>, <<3518, 3519>>, <<3527, 3529>>, <<3531, 3534>>,
   <<3541, 3541>>, <<3543, 3543>>, <<3552, 3557>>, <<3568, 3569>>, <<3573, 3584>>,
   <<3643, 3646>>, <<3676, 3712>>, <<3715, 3715>>, <<3717, 3717>>, <<3723, 3723>>,
   <<3748, 3748>>, <<3750, 3750>>, <<3774, 3775>>, <<3781, 3781>>, <<3783, 3783>>,
   <<3790, 3791>>, <<3802, 3803>>, <<3808, 3839>>, <<3912, 3912>>, <<3949, 3952>>,
   <<3992, 3992>>, <<4029, 4029>>, <<4045, 4045>>, <<4059, 4095>>, <<4294, 4294>>,
   <<4296, 4300>>, <<4302, 4303>>, <<4681, 4681>>, <<4686, 4687>>, <<4695, 4695>>,
   <<4697, 4697>>, <<4702, 4703>>, <<4745, 4745>>, <<4750, 4751>>, <<4785, 4785>>,
   <<4790, 4791>>, <<4799, 4799>>, <<4801, 4801>>, <<4806, 4807>>, <<4823, 4823>>,
   <<4881, 4881>>, <<4886, 4887>>, <<4955, 4956>>, <<4989, 4991>>, <<5018, 5023>>,
   <<5110, 5111>>, <<5118, 5119>>, <<5760, 5760>>, <<5789, 5791>>, <<5881, 5887>>,
   <<5910, 5918>>, <<5943, 5951>>, <<5972, 5983>>, <<5997, 5997>>, <<6001, 6001>>,
   <<6004, 6015>>, <<6110, 6111>>, <<6122, 6127>>, <<6138, 6143>>, <<6158, 6158>>,
   <<6170, 6175>>, <<6265, 6271>>, <<6315, 6319>>, <<6390, 6399>>, <<6431, 6431>>,
   <<6444, 6447>>, <<6460, 6463>>, <<6465, 6467>>, <<6510, 6511>>, <<6517, 6527>>,
   <<6572, 6575>>, <<6602, 6607>>, <<6619, 6621>>, <<6684, 6685>>, <<6751, 6751>>,
   <<6781, 6782>>, <<6794, 6799>>, <<6810, 6815>>, <<6830, 6831>>, <<6863, 6911>>,
   <<6989, 6991>>, <<7039, 7039>>, <<7156, 7163>>, <<7224, 7226>>, <<7242, 7244>>,
   <<7305, 7311>>, <<7355, 7356>>, <<7368, 7375>>, <<7419, 7423>>, <<7958, 7959>>,
   <<7966, 7967>>, <<8006, 8007>>, <<8014, 8015>>, <<8024, 8024>>, <<8026, 8026>>,
   <<8028, 8028>>, <<8030, 8030>>, <<8062, 8063>>, <<8117, 8117>>, <<8133, 8133>>,
   <<8148, 8149>>, <<8156, 8156>>, <<8176, 8177>>, <<8181, 8181>>, <<8191, 8207>>,
   <<8232, 8239>>, <<8287, 8303>>, <<8306, 8307>>, <<8335, 8335>>, <<8349, 8351>>,
   <<8385, 8399>>, <<8433, 8447>>, <<8588, 8591>>, <<9255, 9279>>, <<9291, 9311>>,
   <<11124, 11125>>, <<11158, 11158>>, <<11508, 11512>>, <<11558, 11558>>, <<11560, 11564>>,
   <<11566, 11567>>, <<11624, 11630>>, <<11633, 11646>>, <<11671, 11679>>, <<11687, 11687>>,
   <<11695, 11695>>, <<11703, 11703>>, <<11711, 11711>>, <<11719, 11719>>, <<11727, 11727>>,
   <<11735, 11735>>, <<11743, 11743>>, <<11870, 11903>>, <<11930, 11930>>, <<12020, 12031>>,
   <<12246, 12271>>, <<12284, 12288>>, <<12352, 12352>>, <<12439, 12440>>, <<12544, 12548>>,
   <<12592, 12592>>, <<12687, 12687>>, <<12772, 12783>>, <<12831, 12831>>, <<42125, 42127>>,
   <<42183, 42191>>, <<42540, 42559>>, <<42744, 42751>>, <<42955, 42959>>, <<42962, 42962>>,
   <<42964, 42964>>, <<42970, 42993>>, <<43053, 43055>>, <<43066, 43071>>, <<43128, 43135>>,
   <<43206, 43213>>, <<43226, 43231>>, <<43348, 43358>>, <<43389, 43391>>, <<43470, 43470>>,
   <<43482, 43485>>, <<43519, 43519>>, <<43575, 43583>>, <<43598, 43599>>, <<43610, 43611>>,
   <<43715, 43738>>, <<43767, 43776>>, <<43783, 43784>>, <<43791, 43792>>, <<43799, 43807>>,
   <<43815, 43815>>, <<43823, 43823>>, <<43884, 43887>>, <<44014, 44015>>, <<44026, 44031>>,
   <<55204, 55215>>, <<55239, 55242>>, <<55292, 63743>>, <<64110, 64111>>, <<64218, 64255>>,
   <<64263, 64274>>, <<64280, 64284>>, <<64311, 64311>>, <<64317, 64317>>, <<64319, 64319>>,
   <<64322, 64322>>, <<64325, 64325>>, <<64451, 64466>>, <<64912, 64913>>, <<64968, 64974>>,
   <<64976, 65007>>, <<65050, 65055>>, <<65107, 65107>>, <<65127, 65127>>, <<65132, 65135>>,
   <<65141, 65141>>, <<65277, 65280>>, <<65471, 65473>>, <<65480, 65481>>, <<65488, 65489>>,
   <<65496, 65497>>, <<65501, 65503>>, <<65511, 65511>>, <<65519, 65531>>, <<65534, 65535>>,
   <<65548, 65548>>, <<65575, 65575>>, <<65595, 65595>>, <<65598, 65598>>, <<65614, 65615>>,
   <<65630, 65663>>, <<65787, 65791>>, <<65795, 65798>>, <<65844, 65846>>, <<65935, 65935>>,
   <<65949, 65951>>, <<65953, 65999>>, <<66046, 66175>>, <<66205, 66207>>, <<66257, 66271>>,
   <<66300, 66303>>, <<66340, 66348>>, <<66379, 66383>>, <<66427, 66431>>, <<66462, 66462>>,
   <<66500, 66503>>, <<66518, 66559>>, <<66718, 66719>>, <<66730, 66735>>, <<66772, 66775>>,
   <<66812, 66815>>, <<66856, 66863>>, <<66916, 66926>>, <<66939, 66939>>, <<66955, 66955>>,
   <<66963, 66963>>, <<66966, 66966>>, <<66978, 66978>>, <<66994, 66994>>, <<67002, 67002>>,
   <<67005, 67071>>, <<67383, 67391>>, <<67414, 67423>>, <<67432, 67455>>, <<67462, 67462>>,
   <<67505, 67505>>, <<67515, 67583>>, <<67590, 67591>>, <<67593, 67593>>, <<67638, 67638>>,
   <<67641, 67643>>, <<67645, 67646>>, <<67670, 67670>>, <<67743, 67750>>, <<67760, 67807>>,
   <<67827, 67827>>, <<67830, 67834>>, <<67868, 67870>>, <<67898, 67902>>, <<67904, 67967>>,
   <<68024, 68027>>, <<68048, 68049>>, <<68100, 68100>>, <<68103, 68107>>, <<68116, 68116>>,
   <<68120, 68120>>, <<68150, 68151>>, <<68155, 68158>>, <<68169, 68175>>, <<68185, 68191>>,
   <<68256, 68287>>, <<68327, 68330>>, <<68343, 68351>>, <<68406, 68408>>, <<68438, 68439>>,
   <<68467, 68471>>, <<68498, 68504>>, <<68509, 68520>>, <<68528, 68607>>, <<68681, 68735>>,
   <<68787, 68799>>, <<68851, 68857>>, <<68904, 68911>>, <<68922, 69215>>, <<69247, 69247>>,
   <<69290, 69290>>, <<69294, 69295>>, <<69298, 69375>>, <<69416, 69423>>, <<69466, 69487>>,
   <<69514, 69551>>, <<69580, 69599>>, <<69623, 69631>>, <<69710, 69713>>, <<69750, 69758>>,
   <<69821, 69821>>, <<69827, 69839>>, <<69865, 69871>>, <<69882, 69887>>, <<69941, 69941>>,
   <<69960, 69967>>, <<70007, 70015>>, <<70112, 70112>>, <<70133, 70143>>, <<70162, 70162>>,
   <<70207, 70271>>, <<70279, 70279>>, <<70281, 70281>>, <<70286, 70286>>, <<70302, 70302>>,
   <<70314, 70319>>, <<70379, 70383>>, <<70394, 70399>>, <<70404, 70404>>, <<70413, 70414>>,
   <<70417, 70418>>, <<70441, 70441>>, <<70449, 70449>>, <<70452, 70452>>, <<70458, 70458>>,
   <<70469, 70470>>, <<70473, 70474>>, <<70478, 70479>>, <<70481, 70486>>, <<70488, 70492>>,
   <<70500, 70501>>, <<70509, 70511>>, <<70517, 70655>>, <<70748, 70748>>, <<70754, 70783>>,
   <<70856, 70863>>, <<70874, 71039>>, <<71094, 71095>>, <<71134, 71167>>, <<71237, 71247>>,
   <<71258, 71263>>, <<71277, 71295>>, <<71354, 71359>>, <<71370, 71423>>, <<71451, 71452>>,
   <<71468, 71471>>, <<71495, 71679>>, <<71740, 71839>>, <<71923, 71934>>, <<71943, 71944>>,
   <<71946, 71947>>, <<71956, 71956>>, <<71959, 71959>>, <<71990, 71990>>, <<71993, 71994>>,
   <<72007, 72015>>, <<72026, 72095>>, <<72104, 72105>>, <<72152, 72153>>, <<72165, 72191>>,
   <<72264, 72271>>, <<72355, 72367>>, <<72441, 72703>>, <<72713, 72713>>, <<72759, 72759>>,
   <<72774, 72783>>, <<72813, 72815>>, <<72848, 72849>>, <<72872, 72872>>, <<72887, 72959>>,
   <<72967, 72967>>, <<72970, 72970>>, <<73015, 73017>>, <<73019, 73019>>, <<73022, 73022>>,
   <<73032, 73039>>, <<73050, 73055>>, <<73062, 73062>>, <<73065, 73065>>, <<73103, 73103>>,
   <<73106, 73106>>, <<73113, 73119>>, <<73130, 73439>>, <<73465, 73647>>, <<73649, 73663>>,
   <<73714, 73726>>, <<74650, 74751>>, <<74863, 74863>>, <<74869, 74879>>, <<75076, 77711>>,
   <<77811, 77823>>, <<78895, 82943>>, <<83527, 92159>>, <<92729, 92735>>, <<92767, 92767>>,
   <<92778, 92781>>, <<92863, 92863>>, <<92874, 92879>>, <<92910, 92911>>, <<92918, 92927>>,
   <<92998, 93007>>, <<93018, 93018>>, <<93026, 93026>>, <<93048, 93052>>, <<93072, 93759>>,
   <<93851, 93951>>, <<94027, 94030>>, <<94088, 94094>>, <<94112, 94175>>, <<94181, 94191>>,
   <<94194, 94207>>, <<100344, 100351>>, <<101590, 101631>>, <<101641, 110575>>, <<110580, 110580>>,
   <<110588, 110588>>, <<110591, 110591>>, <<110883, 110927>>, <<110931, 110947>>, <<110952, 110959>>,
   <<111356, 113663>>, <<113771, 113775>>, <<113789, 113791>>, <<113801, 113807>>, <<113818, 113819>>,
   <<113824, 118527>>, <<118574, 118575>>, <<118599, 118607>>, <<118724, 118783>>, <<119030, 119039>>,
   <<119079, 119080>>, <<119155, 119162>>, <<119275, 119295>>, <<119366, 119519>>, <<119540, 119551>>,
   <<119639, 119647>>, <<119673, 119807>>, <<119893, 119893>>, <<119965, 119965>>, <<119968, 119969>>,
   <<119971, 119972>>, <<119975, 119976>>, <<119981, 119981>>, <<119994, 119994>>, <<119996, 119996>>,
   <<120004, 120004>>, <<120070, 120070>>, <<120075, 120076>>, <<120085, 120085>>, <<120093, 120093>>,
   <<120122, 120122>>, <<120127, 120127>>, <<120133, 120133>>, <<120135, 120137>>, <<120145, 120145>>,
   <<120486, 120487>>, <<120780, 120781>>, <<121484, 121498>>, <<121504, 121504>>, <<121520, 122623>>,
   <<122655, 122879>>, <<122887, 122887>>, <<122905, 122906>>, <<122914, 122914>>, <<122917, 122917>>,
   <<122923, 123135>>, <<123181, 123183>>, <<123198, 123199>>, <<123210, 123213>>, <<123216, 123535>>,
   <<123567, 123583>>, <<123642, 123646>>, <<123648, 124895>>, <<124903, 124903>>, <<124908, 124908>>,
   <<124911, 124911>>, <<124927, 124927>>, <<125125, 125126>>, <<125143, 125183>>, <<125260, 125263>>,
   <<125274, 125277>>, <<125280, 126064>>, <<126133, 126208>>, <<126270, 126463>>, <<126468, 126468>>,
   <<126496, 126496>>, <<126499, 126499>>, <<126501, 126502>>, <<126504, 126504>>, <<126515, 126515>>,
   <<126520, 126520>>, <<126522, 126522>>, <<126524, 126529>>, <<126531, 126534>>, <<126536, 126536>>,
   <<126538, 126538>>, <<126540, 126540>>, <<126544, 126544>>, <<126547, 126547>>, <<126549, 126550>>,
   <<126552, 126552>>, <<126554, 126554>>, <<126556, 126556>>, <<126558, 126558>>, <<126560, 126560>>,
   <<126563, 126563>>, <<126565, 126566>>, <<126571, 126571>>, <<126579, 126579>>, <<126584, 126584>>,
   <<126589, 126589>>, <<126591, 126591>>, <<126602, 126602>>, <<126620, 126624>>, <<126628, 126628>>,
   <<126634, 126634>>, <<126652, 126703>>, <<126706, 126975>>, <<127020, 127023>>, <<127124, 127135>>,
   <<127151, 127152>>, <<127168, 127168>>, <<127184, 127184>>, <<127222, 127231>>, <<127406, 127461>>,
   <<127491, 127503>>, <<127548, 127551>>, <<127561, 127567>>, <<127570, 127583>>, <<127590, 127743>>,
   <<128728, 128732>>, <<128749, 128751>>, <<128765, 128767>>, <<128884, 128895>>, <<128985, 128991>>,
   <<129004, 129007>>, <<129009, 129023>>, <<129036, 129039>>, <<129096, 129103>>, <<129114, 129119>>,
   <<129160, 129167>>, <<129198, 129199>>, <<129202, 129279>>, <<129620, 129631>>, <<129646, 129647>>,
   <<129653, 129655>>, <<129661, 129663>>, <<129671, 129679>>, <<129709, 129711>>, <<129723, 129727>>,
   <<129734, 129743>>, <<129754, 129759>>, <<129768, 129775>>, <<129783, 129791>>, <<129939, 129939>>,
   <<129995, 130031>>, <<130042, 131071>>, <<173792, 173823>>, <<177977, 177983>>, <<178206, 178207>>,
   <<183970, 183983>>, <<191457, 194559>>, <<195102, 196607>>, <<201547, 917759>>, <<918000, 1114111>>
  >>


(***************************************************************************)
(* Python values.                                                          *)
(***************************************************************************)
Missing == [t |-> "missing"]
JNull == [t |-> "null"]
JBool(b) == [t |-> "bool", b |-> b]
JInt(n) == [t |-> "int", n |-> n]
\* a float, held as the text repr() prints it with
JFloat(repr) == [t |-> "float", repr |-> repr]
JStr(s) == [t |-> "str", v |-> s]
JList(q) == [t |-> "list", items |-> q]
\* a dict: its <<key, value>> items in insertion order, no key twice
JDict(pairs) == [t |-> "dict", pairs |-> pairs]

\* the item of key in a dict under construction, none when value is Missing
Entry(key, value) == IF value = Missing THEN <<>> ELSE << <<Str(key), value>> >>

\* the JSON object of a request body, of the keys that are given
Body(messages, model, rlmConfig) ==
  JDict(Entry("messages", messages) \o Entry("model", model)
        \o Entry("rlmConfig", rlmConfig))
\* one turn of messages, of the keys that are given
Turn(role, content) == JDict(Entry("role", role) \o Entry("content", content))
\* the rlmConfig object of a request body, of the keys that are given
ConfigData(backend, modelName, maxRecursionDepth, environment) ==
  JDict(Entry("backend", backend) \o Entry("modelName", modelName)
        \o Entry("maxRecursionDepth", maxRecursionDepth)
        \o Entry("environment", environment))

IsStr(x) == x.t = "str"

\* type(x).__name__, as it appears in the messages of AttributeError/TypeError
TypeName(x) ==
  CASE x.t = "null" -> Str("NoneType")
    [] x.t = "bool" -> Str("bool")
    [] x.t = "int" -> Str("int")
    [] x.t = "float" -> Str("float")
    [] x.t = "str" -> Str("str")
    [] x.t = "list" -> Str("list")
    [] x.t = "dict" -> Str("dict")
    [] x.t = "object" -> x.cls

FloatZero == {Str("0.0"), Str("-0.0")}

\* bool(x): None, False, 0, 0.0, "", [] and {} are falsy
Truthy(x) ==
  CASE x.t = "null" -> FALSE
    [] x.t = "bool" -> x.b
    [] x.t = "int" -> x.n # 0
    [] x.t = "float" -> x.repr \notin FloatZero
    [] x.t = "str" -> Len(x.v) > 0
    [] x.t = "list" -> Len(x.items) > 0
    [] x.t = "dict" -> Len(x.pairs) > 0
    [] x.t = "object" -> TRUE

\* key in d
HasKey(d, key) == \E i \in 1..Len(d.pairs) : d.pairs[i][1] = Str(key)

\* d.get(key, default), d a dict
Get(d, key, default) ==
  IF HasKey(d, key)
  THEN d.pairs[CHOOSE i \in 1..Len(d.pairs) : d.pairs[i][1] = Str(key)][2]
  ELSE default

\* getattr(o, name, default): only an object has the attributes read here
Attr(o, name, default) ==
  IF o.t = "object" /\ name \in DOMAIN o /\ o[name] # Missing THEN o[name] ELSE default

\* an exception of class type: bases are the classes it inherits from, nearest
\* first, up to BaseException; msg is str(e)
ExcOf(type, bases, msg) == [type |-> type, bases |-> bases, msg |-> msg]

\* the classes a built-in exception class inherits from
BuiltinBases(type) ==
  CASE type = "ModuleNotFoundError" -> <<"ImportError", "Exception", "BaseException">>
    [] type \in {"ImportError", "AttributeError", "TypeError", "ValueError",
                 "RuntimeError"} -> <<"Exception", "BaseException">>

\* an exception of a built-in class
Exc(type, msg) == ExcOf(type, BuiltinBases(type), msg)

\* isinstance(e, class)
IsInstance(e, class) ==
  e.type = class \/ \E i \in 1..Len(e.bases) : e.bases[i] = class
Raise(e) == [ok |-> FALSE, exc |-> e]
NoAttribute(x, name) ==
  Exc("AttributeError",
      Str("'") \o TypeName(x) \o Str("' object has no attribute '") \o Str(name) \o Str("'"))
NoLen(x) ==
  Exc("TypeError", Str("object of type '") \o TypeName(x) \o Str("' has no len()"))
NotSubscriptable(x) ==
  Exc("TypeError", Str("'") \o TypeName(x) \o Str("' object is not subscriptable"))
UnhashableSlice == Exc("TypeError", Str("unhashable type: 'slice'"))

(***************************************************************************)
(* str(), repr(), len(), slicing, str.upper(), int().                      *)
(***************************************************************************)
\* not str.isprintable(), of one code point
IsNonprintable(c) ==
  IF c < 127 THEN c < 32
  ELSE c = 127 \/ \E i \in 1..Len(Nonprintable) :
                     c >= Nonprintable[i][1] /\ c <= Nonprintable[i][2]

\* one code point of a str inside repr(), quote the quote it is written in
EscapeChar(c, quote) ==
  CASE c = quote \/ c = 92 -> <<92, c>>
    [] c = 9 -> Str("\\t")
    [] c = 10 -> Str("\\n")
    [] c = 13 -> Str("\\r")
    [] OTHER ->
         IF ~IsNonprintable(c) THEN <<c>>
         ELSE IF c < 256 THEN Str("\\x") \o Hex(c, 2)
         ELSE IF c < 65536 THEN Str("\\u") \o Hex(c, 4)
         ELSE Str("\\U") \o Hex(c, 8)

RECURSIVE EscapeFrom(_, _, _)
EscapeFrom(s, i, quote) ==
  IF i > Len(s) THEN <<>> ELSE EscapeChar(s[i], quote) \o EscapeFrom(s, i + 1, quote)

\* the quote repr(s) writes a str in: the double quote when s has a ' and no "
Quote(s) ==
  LET has(c) == \E i \in 1..Len(s) : s[i] = c
  IN IF has(39) /\ ~has(34) THEN 34 ELSE 39

\* repr(s) of a str
ReprStr(s) == <<Quote(s)>> \o EscapeFrom(s, 1, Quote(s)) \o <<Quote(s)>>

RECURSIVE PyRepr(_)
RECURSIVE ReprItems(_, _)
RECURSIVE ReprPairs(_, _)
\* repr(x[i-1]), ... of the items of a list
ReprItems(items, i) ==
  IF i > Len(items) THEN <<>>
  ELSE <<PyRepr(items[i])>> \o ReprItems(items, i + 1)
\* "key: value", ... of the items of a dict
ReprPairs(pairs, i) ==
  IF i > Len(pairs) THEN <<>>
  ELSE <<ReprStr(pairs[i][1]) \o Str(": ") \o PyRepr(pairs[i][2])>>
         \o ReprPairs(pairs, i + 1)
\* repr(x), x a JSON value
PyRepr(x) ==
  CASE x.t = "null" -> Str("None")
    [] x.t = "bool" -> IF x.b THEN Str("True") ELSE Str("False")
    [] x.t = "int" -> IF x.n < 0 THEN <<45>> \o Decimal(-x.n) ELSE Decimal(x.n)
    [] x.t = "float" -> x.repr
    [] x.t = "str" -> ReprStr(x.v)
    [] x.t = "list" -> Str("[") \o Join(Str(", "), ReprItems(x.items, 1)) \o Str("]")
    [] x.t = "dict" -> Str("{") \o Join(Str(", "), ReprPairs(x.pairs, 1)) \o Str("}")

\* str(x), as an f-string formats a value
PyStr(x) == IF IsStr(x) THEN x.v ELSE PyRepr(x)

\* len(x) of the logger.info lines
PyLen(x) ==
  IF x.t \in {"str", "list", "dict"} THEN [ok |-> TRUE] ELSE Raise(NoLen(x))

\* where x[:n] stops in a sequence of length len
SliceStop(len, n) ==
  IF n < 0 THEN (IF len + n < 0 THEN 0 ELSE len + n)
  ELSE (IF n > len THEN len ELSE n)

\* x[:n]
Slice(x, n) ==
  CASE x.t = "str" -> [ok |-> TRUE, v |-> JStr(SubSeq(x.v, 1, SliceStop(Len(x.v), n)))]
    [] x.t = "list" ->
         [ok |-> TRUE, v |-> JList(SubSeq(x.items, 1, SliceStop(Len(x.items), n)))]
    [] x.t = "dict" -> Raise(UnhashableSlice)
    [] OTHER -> Raise(NotSubscriptable(x))

\* what iterating and indexing x gives, x a list or a str
Elements(x) ==
  IF x.t = "list" THEN x.items ELSE [i \in 1..Len(x.v) |-> JStr(<<x.v[i]>>)]

\* str.upper() of one code point
UpperChar(c) ==
  IF c < 128 THEN (IF c >= 97 /\ c <= 122 THEN <<c - 32>> ELSE <<c>>)
  ELSE IF \E i \in 1..Len(UpperMulti) : UpperMulti[i][1] = c
  THEN UpperMulti[CHOOSE i \in 1..Len(UpperMulti) : UpperMulti[i][1] = c][2]
  ELSE LET in(i) == /\ c >= UpperRuns[i][1]
                    /\ c <= UpperRuns[i][2]
                    /\ (c - UpperRuns[i][1]) % UpperRuns[i][3] = 0
       IN IF \E i \in 1..Len(UpperRuns) : in(i)
          THEN <<c + UpperRuns[CHOOSE i \in 1..Len(UpperRuns) : in(i)][4]>>
          ELSE <<c>>

RECURSIVE UpperFrom(_, _)
\* the upper case of s from its i-th character on
UpperFrom(s, i) ==
  IF i > Len(s) THEN <<>> ELSE UpperChar(s[i]) \o UpperFrom(s, i + 1)

\* str.upper()
Upper(s) == UpperFrom(s, 1)

\* the value of a decimal digit, -1 for any other code point
DigitValue(c) ==
  IF c >= 48 /\ c <= 57 THEN c - 48
  ELSE IF \E z \in DecimalZeros : c >= z /\ c <= z + 9
  THEN c - (CHOOSE z \in DecimalZeros : c >= z /\ c <= z + 9)
  ELSE -1

RECURSIVE DigitsValue(_, _)
\* the value of the digits among the first n characters of s
DigitsValue(s, n) ==
  IF n = 0 THEN 0
  ELSE IF s[n] = 95 THEN DigitsValue(s, n - 1)
  ELSE 10 * DigitsValue(s, n - 1) + DigitValue(s[n])

\* the most digits int() converts (sys.get_int_max_str_digits())
MaxStrDigits == 4300
\* the most characters of repr(s) the message of int() shows ("%.200R")
ReprShown == 200

\* repr(s)[:n], from the first n characters of s, which give that many of repr(s)
ReprHead(s, n) ==
  LET k == IF Len(s) < n THEN Len(s) ELSE n
      text == <<Quote(s)>> \o EscapeFrom(SubSeq(s, 1, k), 1, Quote(s))
                \o (IF k = Len(s) THEN <<Quote(s)>> ELSE <<>>)
  IN SubSeq(text, 1, IF Len(text) < n THEN Len(text) ELSE n)

\* the least member of a non-empty set of numbers
Least(S) == CHOOSE m \in S : \A j \in S : m <= j
\* the greatest member of a non-empty set of numbers
Greatest(S) == CHOOSE m \in S : \A j \in S : m >= j

\* int(s), s a str: blanks around, a sign, then digits, single underscores
\* between them.  The digits and underscores after the sign are read first:
\* more than MaxStrDigits digits are refused whatever follows them.
ParseInt(s) ==
  LET inked == {i \in 1..Len(s) : s[i] \notin IntSpaces}
      core == IF inked = {} THEN <<>> ELSE SubSeq(s, Least(inked), Greatest(inked))
      signed == Len(core) > 0 /\ core[1] \in {43, 45}
      body == IF signed THEN SubSeq(core, 2, Len(core)) ELSE core
      stops == {i \in 1..Len(body) : DigitValue(body[i]) < 0 /\ body[i] # 95}
      run == IF stops = {} THEN body ELSE SubSeq(body, 1, Least(stops) - 1)
      wellformed == /\ Len(run) > 0
                    /\ \A i \in 1..Len(run) :
                         \/ run[i] # 95
                         \/ /\ i > 1 /\ i < Len(run)
                            /\ run[i - 1] # 95
                            /\ run[i + 1] # 95
      digits == Cardinality({i \in 1..Len(run) : run[i] # 95})
      n == DigitsValue(run, Len(run))
  IN IF wellformed /\ digits > MaxStrDigits
     THEN Raise(Exc("ValueError",
                    Str("Exceeds the limit (") \o Decimal(MaxStrDigits)
                      \o Str(" digits) for integer string conversion: value has ")
                      \o Decimal(digits)
                      \o Str(" digits; use sys.set_int_max_str_digits() to increase the limit")))
     ELSE IF wellformed /\ stops = {}
     THEN [ok |-> TRUE, n |-> IF core[1] = 45 THEN -n ELSE n]
     ELSE Raise(Exc("ValueError",
                    Str("invalid literal for int() with base 10: ")
                      \o ReprHead(s, ReprShown)))

(***************************************************************************)
(* messages_to_context                                                     *)
(***************************************************************************)
\* RenderTurn with the role left in the case it came in
RenderTurnNoUpper(msg) ==
  IF msg.t # "dict" THEN Raise(NoAttribute(msg, "get"))
  ELSE LET role == Get(msg, "role", JStr(Str("user")))
           content == Get(msg, "content", JStr(<<>>))
       IN IF ~IsStr(role) THEN Raise(NoAttribute(role, "upper"))
          ELSE [ok |-> TRUE,
                part |-> Str("[") \o role.v \o Str("]: ") \o PyStr(content)]

\* one pass of the loop body: the block appended for msg, or the exception
RenderTurn(msg) ==
  IF msg.t # "dict" THEN Raise(NoAttribute(msg, "get"))
  ELSE LET role == Get(msg, "role", JStr(Str("user")))
           content == Get(msg, "content", JStr(<<>>))
       IN IF ~IsStr(role) THEN Raise(NoAttribute(role, "upper"))
          ELSE [ok |-> TRUE,
                part |-> Str("[") \o Upper(role.v) \o Str("]: ") \o PyStr(content)]

RECURSIVE ContextPartsFrom(_, _)
\* the loop over msgs from its i-th turn on: the blocks appended, or the first
\* exception
ContextPartsFrom(msgs, i) ==
  IF i > Len(msgs) THEN [ok |-> TRUE, parts |-> <<>>]
  ELSE LET first == RenderTurn(msgs[i])
           rest == ContextPartsFrom(msgs, i + 1)
       IN IF ~first.ok THEN first
          ELSE IF ~rest.ok THEN rest
          ELSE [ok |-> TRUE, parts |-> <<first.part>> \o rest.parts]

\* the loop "for msg in messages[:-1]": context_parts, or the first exception
ContextParts(msgs) == ContextPartsFrom(msgs, 1)

messages_to_context(messages) ==
  IF ~Truthy(messages) THEN [ok |-> TRUE, context |-> <<>>, query |-> JStr(<<>>)]
  ELSE LET head == Slice(messages, -1)
       IN IF ~head.ok THEN head
          ELSE LET loop == ContextParts(Elements(head.v))
                   last_msg == Elements(messages)[Len(Elements(messages))]
               IN IF ~loop.ok THEN loop
                  ELSE IF last_msg.t # "dict" THEN Raise(NoAttribute(last_msg, "get"))
                  ELSE [ok |-> TRUE,
                        context |-> Join(Str("\n\n"), loop.parts),
                        query |-> Get(last_msg, "content", JStr(<<>>))]

(***************************************************************************)
(* Process-wide configuration (module level, read once at import).         *)
(***************************************************************************)
\* os.getenv(name, fallback): an unset variable is JNull
Getenv(slot, fallback) == IF slot = JNull THEN fallback ELSE slot

DEFAULT_BACKEND(env) == Getenv(env.RLM_BACKEND, JStr(Str("openrouter")))
DEFAULT_MODEL(env) ==
  Getenv(env.RLM_MODEL, JStr(Str("google/gemini-3-flash-preview")))
\* int(os.getenv("RLM_MAX_RECURSION", "10")): the value, or the ValueError
MaxRecursionSetting(env) == ParseInt(Getenv(env.RLM_MAX_RECURSION, JStr(Str("10"))).v)
DEFAULT_MAX_RECURSION(env) == JInt(MaxRecursionSetting(env).n)

\* the module's top-level statements ran: the server exists
Imported(env) == MaxRecursionSetting(env).ok

\* os.path.dirname(os.path.abspath(__file__))
WorkDir == "/srv/rlm_bridge"
\* the directory the process was started in
LaunchDir == "/home/pi"

(***************************************************************************)
(* completion(): configuration parsing                                     *)
(***************************************************************************)
\* RlmConfig with the recursion depth forced into the range 1..
RlmConfigClamped(cd, env) ==
  [backend |-> Get(cd, "backend", DEFAULT_BACKEND(env)),
   model_name |-> Get(cd, "modelName", DEFAULT_MODEL(env)),
   max_recursion_depth |->
     LET d == Get(cd, "maxRecursionDepth", DEFAULT_MAX_RECURSION(env))
     IN IF d.t = "int" /\ d.n < 1 THEN JInt(1) ELSE d,
   environment |-> Get(cd, "environment", JStr(Str("local")))]

\* RlmConfig(backend=rlm_config_data.get("backend", DEFAULT_BACKEND), ...)
RlmConfig(cd, env) ==
  [backend |-> Get(cd, "backend", DEFAULT_BACKEND(env)),
   model_name |-> Get(cd, "modelName", DEFAULT_MODEL(env)),
   max_recursion_depth |-> Get(cd, "maxRecursionDepth", DEFAULT_MAX_RECURSION(env)),
   environment |-> Get(cd, "environment", JStr(Str("local")))]

\* rlm_config_data = data.get("rlmConfig", {}); config = RlmConfig(...)
ParseConfigData(data, env) ==
  LET cd == Get(data, "rlmConfig", JDict(<<>>))
  IN IF cd.t # "dict" THEN Raise(NoAttribute(cd, "get"))
     ELSE [ok |-> TRUE, config |-> RlmConfig(cd, env)]

(***************************************************************************)
(* run_rlm_completion: the pieces of the try block                         *)
(***************************************************************************)
\* the api_key chosen by config.backend
ApiKey(config, env) ==
  CASE config.backend = JStr(Str("openrouter")) -> env.OPENROUTER_API_KEY
    [] config.backend = JStr(Str("openai")) -> env.OPENAI_API_KEY
    [] config.backend = JStr(Str("anthropic")) -> env.ANTHROPIC_API_KEY
    [] OTHER -> JNull

BackendKwargs(config, env) ==
  [model_name |-> config.model_name,
   api_key |-> IF Truthy(ApiKey(config, env)) THEN ApiKey(config, env) ELSE Missing]

\* FullPrompt with the template applied to an empty context too
FullPromptAlwaysTemplate(context, query) ==
  JStr(Str("Previous conversation context:\n") \o context
       \o Str("\n\nCurrent request:\n") \o PyStr(query))

\* if context: full_prompt = f"""...""" else: full_prompt = query
FullPrompt(context, query) ==
  IF Len(context) > 0
  THEN JStr(Str("Previous conversation context:\n") \o context
            \o Str("\n\nCurrent request:\n") \o PyStr(query))
  ELSE query

\* the arguments of RLM(...)
RlmArgs(config, env) ==
  [backend |-> config.backend,
   backend_kwargs |-> BackendKwargs(config, env),
   max_depth |-> config.max_recursion_depth,
   verbose |-> TRUE]

\* a or b
PyOr(a, b) == IF Truthy(a) THEN a ELSE b

\* CompletionResponse(text, usage, metadata), as asdict() gives it
Response(text, usage, metadata) ==
  JDict(<< <<Str("text"), text>>, <<Str("usage"), usage>>,
           <<Str("metadata"), metadata>> >>)

\* Usage with the two names of each count read in the other order
UsageSecondNameFirst(result) ==
  LET usage_summary == Attr(result, "usage_summary", JNull)
  IN IF Truthy(usage_summary)
     THEN JDict(<< <<Str("promptTokens"),
                     PyOr(PyOr(Attr(usage_summary, "input_tokens", JInt(0)),
                               Attr(usage_summary, "prompt_tokens", JInt(0))), JInt(0))>>,
                   <<Str("completionTokens"),
                     PyOr(PyOr(Attr(usage_summary, "output_tokens", JInt(0)),
                               Attr(usage_summary, "completion_tokens", JInt(0))),
                          JInt(0))>> >>)
     ELSE JDict(<<>>)

\* usage = {}; if usage_summary: usage = {"promptTokens": ..., "completionTokens": ...}
Usage(result) ==
  LET usage_summary == Attr(result, "usage_summary", JNull)
  IN IF Truthy(usage_summary)
     THEN JDict(<< <<Str("promptTokens"),
                     PyOr(PyOr(Attr(usage_summary, "prompt_tokens", JInt(0)),
                               Attr(usage_summary, "input_tokens", JInt(0))), JInt(0))>>,
                   <<Str("completionTokens"),
                     PyOr(PyOr(Attr(usage_summary, "completion_tokens", JInt(0)),
                               Attr(usage_summary, "output_tokens", JInt(0))),
                          JInt(0))>> >>)
     ELSE JDict(<<>>)

\* metadata={"recursionDepth": getattr(result, "depth", 0), "executionTime": ...}
Metadata(result) ==
  JDict(<< <<Str("recursionDepth"), Attr(result, "depth", JInt(0))>>,
           <<Str("executionTime"), Attr(result, "execution_time", JInt(0))>> >>)

\* lines 143-163: the CompletionResponse built from the engine's result
Normalize(result) ==
  LET response == Attr(result, "response", Missing)
  IN IF response = Missing THEN Raise(NoAttribute(result, "response"))
     ELSE IF ~PyLen(response).ok THEN PyLen(response)
     ELSE [ok |-> TRUE, response |-> Response(response, Usage(result), Metadata(result))]

\* the length of the query prefix the mock text embeds
MockQueryChars == 100

\* MockResponse with the query embedded whole
MockResponseWholeQuery(query) ==
  IF ~Slice(query, MockQueryChars).ok THEN Slice(query, MockQueryChars)
  ELSE [ok |-> TRUE,
        response |-> Response(JStr(Str("[RLM MOCK] Would process query: ")
                                   \o PyStr(query) \o Str("...")),
                              JNull,
                              JDict(<< <<Str("mock"), JBool(TRUE)>> >>))]

\* except ImportError: the mock CompletionResponse, or what query[:100] raises
MockResponse(query) ==
  IF ~Slice(query, MockQueryChars).ok THEN Slice(query, MockQueryChars)
  ELSE [ok |-> TRUE,
        response |-> Response(JStr(Str("[RLM MOCK] Would process query: ")
                                   \o PyStr(Slice(query, MockQueryChars).v)
                                   \o Str("...")),
                              JNull,
                              JDict(<< <<Str("mock"), JBool(TRUE)>> >>))]

\* except ImportError: e is an ImportError or of a subclass of it
IsImportError(e) == IsInstance(e, "ImportError")

\* the except clauses of run_rlm_completion, for an exception raised in the try
\* block: the value returned, or the exception that leaves the function
Handle(e, query) ==
  IF IsImportError(e) THEN MockResponse(query) ELSE Raise(e)

(***************************************************************************)
(* completion(): the responses                                             *)
(***************************************************************************)
\* jsonify({"error": msg}), status
ErrorResponse(status, msg) ==
  [status |-> status, body |-> JDict(<< <<Str("error"), JStr(msg)>> >>)]
\* jsonify(asdict(response))
OkResponse(response) == [status |-> 200, body |-> response]
\* except Exception as e: whether the clause catches e
IsException(e) == IsInstance(e, "Exception")
\* except Exception as e: return jsonify({"error": str(e)}), 500
Caught(e) == ErrorResponse(500, e.msg)

(***************************************************************************)
(* The state.  Requests are handled by concurrent handler threads; each    *)
(* per-request variable is a function of the request.                      *)
(***************************************************************************)
Reqs == 1..NumReq

VARIABLES
  environ,        \* os.environ as read at start-up
  rlm_available,  \* whether "from rlm import RLM" succeeds in this installation
  cwd,            \* the process's working directory
  pc,             \* where each request's handler is
  req,            \* the HTTP request
  config,         \* completion(): config
  context,        \* completion(): context, as JStr
  query,          \* completion(): query
  full_prompt,    \* run_rlm_completion(): full_prompt
  rlm,            \* run_rlm_completion(): the arguments the engine was built with
  result,         \* run_rlm_completion(): what rlm.completion returned
  failure,        \* history: the exception RLM(...) or rlm.completion raised, if any
  raised,         \* the exception that left run_rlm_completion, if any
  calls,          \* history: the prompts passed to rlm.completion
  sent,           \* history: the responses sent
  trace           \* history: the stages the handler went through

vars == <<environ, rlm_available, cwd, pc, req, config, context, query,
          full_prompt, rlm, result, failure, raised, calls, sent, trace>>

None == [t |-> "unset"]

\* the server has started in one of the environments Envs that let it start
InitWith(Envs, Cwds) ==
  /\ environ \in {env \in Envs : Imported(env)}
  /\ rlm_available \in BOOLEAN
  /\ cwd \in Cwds
  /\ pc = [r \in Reqs |-> "idle"]
  /\ req = [r \in Reqs |-> None]
  /\ config = [r \in Reqs |-> None]
  /\ context = [r \in Reqs |-> None]
  /\ query = [r \in Reqs |-> None]
  /\ full_prompt = [r \in Reqs |-> None]
  /\ rlm = [r \in Reqs |-> None]
  /\ result = [r \in Reqs |-> None]
  /\ failure = [r \in Reqs |-> None]
  /\ raised = [r \in Reqs |-> None]
  /\ calls = [r \in Reqs |-> <<>>]
  /\ sent = [r \in Reqs |-> <<>>]
  /\ trace = [r \in Reqs |-> <<>>]

\* request.get_json(): None when the request carries no JSON body
GetJson(request) == IF request.body = Missing THEN JNull ELSE request.body

\* data.get("messages", [])
MessagesOf(data) == Get(data, "messages", JList(<<>>))

\* After with the engine built and called again after its completion call
AfterRetry(stage) ==
  CASE stage = "get_json" -> "parse_config"
    [] stage = "parse_config" -> "adapt"
    [] stage = "adapt" -> "import"
    [] stage = "import" -> "prompt"
    [] stage = "prompt" -> "chdir"
    [] stage = "chdir" -> "construct"
    [] stage = "construct" -> "completion"
    [] stage = "completion" -> "construct"
    [] OTHER -> "done"

\* the statement order of completion() and run_rlm_completion()
After(stage) ==
  CASE stage = "get_json" -> "parse_config"
    [] stage = "parse_config" -> "adapt"
    [] stage = "adapt" -> "import"
    [] stage = "import" -> "prompt"
    [] stage = "prompt" -> "chdir"
    [] stage = "chdir" -> "construct"
    [] stage = "construct" -> "completion"
    [] stage = "completion" -> "normalize"
    [] OTHER -> "done"

\* the handler of request r moves on from its stage
Advance(r) ==
  /\ pc' = [pc EXCEPT ![r] = After(pc[r])]
  /\ trace' = [trace EXCEPT ![r] = Append(@, pc[r])]
  /\ UNCHANGED sent

\* the handler of request r returns resp
Respond(r, resp) ==
  /\ pc' = [pc EXCEPT ![r] = "done"]
  /\ trace' = [trace EXCEPT ![r] = Append(@, pc[r])]
  /\ sent' = [sent EXCEPT ![r] = Append(@, resp)]

\* an exception no clause of completion() catches leaves the handler of r:
\* completion() returns no response
Escape(r) ==
  /\ pc' = [pc EXCEPT ![r] = "escaped"]
  /\ trace' = [trace EXCEPT ![r] = Append(@, pc[r])]
  /\ UNCHANGED sent

\* an exception e raised inside the try block of run_rlm_completion
Except(r, e) ==
  LET h == Handle(e, query[r])
  IN /\ raised' = [raised EXCEPT ![r] = IF h.ok THEN @ ELSE h.exc]
     /\ IF h.ok THEN Respond(r, OkResponse(h.response))
        ELSE IF IsException(h.exc) THEN Respond(r, Caught(h.exc))
        ELSE Escape(r)

\* a client sends POST /completion
Receive(r, Requests) ==
  /\ pc[r] = "idle"
  /\ \E q \in Requests : req' = [req EXCEPT ![r] = q]
  /\ pc' = [pc EXCEPT ![r] = "get_json"]
  /\ UNCHANGED <<environ, rlm_available, cwd, config, context, query, full_prompt,
                 rlm, result, failure, raised, calls, sent, trace>>

\* completion(): data = request.get_json() and the two validations
Validate(r) ==
  /\ pc[r] = "get_json"
  /\ LET data == GetJson(req[r])
     IN IF ~Truthy(data) THEN Respond(r, ErrorResponse(400, Str("No JSON body provided")))
        ELSE IF data.t # "dict" THEN Respond(r, Caught(NoAttribute(data, "get")))
        ELSE IF ~Truthy(MessagesOf(data))
             THEN Respond(r, ErrorResponse(400, Str("No messages provided")))
        ELSE Advance(r)
  /\ UNCHANGED <<environ, rlm_available, cwd, req, config, context, query, full_prompt,
                 rlm, result, failure, raised, calls>>

\* completion(): config = RlmConfig(...) and the log line with len(messages)
ParseConfig(r) ==
  /\ pc[r] = "parse_config"
  /\ LET data == GetJson(req[r])
         c == ParseConfigData(data, environ)
         n == PyLen(MessagesOf(data))
     IN IF ~c.ok THEN UNCHANGED config /\ Respond(r, Caught(c.exc))
        ELSE /\ config' = [config EXCEPT ![r] = c.config]
             /\ IF n.ok THEN Advance(r) ELSE Respond(r, Caught(n.exc))
  /\ UNCHANGED <<environ, rlm_available, cwd, req, context, query, full_prompt,
                 rlm, result, failure, raised, calls>>

\* Adapt with context and query kept in module-level variables
AdaptShared(r) ==
  /\ pc[r] = "adapt"
  /\ LET a == messages_to_context(MessagesOf(GetJson(req[r])))
     IN /\ context' = IF a.ok THEN [q \in Reqs |-> JStr(a.context)] ELSE context
        /\ query' = IF a.ok THEN [q \in Reqs |-> a.query] ELSE query
        /\ IF a.ok THEN Advance(r) ELSE Respond(r, Caught(a.exc))
  /\ UNCHANGED <<environ, rlm_available, cwd, req, config, full_prompt,
                 rlm, result, failure, raised, calls>>

\* completion(): context, query = messages_to_context(messages)
Adapt(r) ==
  /\ pc[r] = "adapt"
  /\ LET a == messages_to_context(MessagesOf(GetJson(req[r])))
     IN /\ context' = [context EXCEPT ![r] = IF a.ok THEN JStr(a.context) ELSE @]
        /\ query' = [query EXCEPT ![r] = IF a.ok THEN a.query ELSE @]
        /\ IF a.ok THEN Advance(r) ELSE Respond(r, Caught(a.exc))
  /\ UNCHANGED <<environ, rlm_available, cwd, req, config, full_prompt,
                 rlm, result, failure, raised, calls>>

\* run_rlm_completion(): from rlm import RLM
Import(r) ==
  /\ pc[r] = "import"
  /\ IF rlm_available THEN Advance(r) /\ UNCHANGED raised
     ELSE Except(r, Exc("ModuleNotFoundError", Str("No module named 'rlm'")))
  /\ UNCHANGED <<environ, rlm_available, cwd, req, config, context, query, full_prompt,
                 rlm, result, failure, calls>>

\* run_rlm_completion(): api_key, backend_kwargs, full_prompt and the three log lines
Prompt(r) ==
  /\ pc[r] = "prompt"
  /\ full_prompt' = [full_prompt EXCEPT ![r] = FullPrompt(context[r].v, query[r])]
  /\ IF PyLen(query[r]).ok THEN Advance(r) /\ UNCHANGED raised
     ELSE Except(r, PyLen(query[r]).exc)
  /\ UNCHANGED <<environ, rlm_available, cwd, req, config, context, query,
                 rlm, result, failure, calls>>

\* run_rlm_completion(): os.chdir(work_dir)
Chdir(r) ==
  /\ pc[r] = "chdir"
  /\ cwd' = WorkDir
  /\ Advance(r)
  /\ UNCHANGED <<environ, rlm_available, req, config, context, query, full_prompt,
                 rlm, result, failure, raised, calls>>

\* run_rlm_completion(): rlm = RLM(...), which returns or raises
Construct(r, Failures) ==
  /\ pc[r] = "construct"
  /\ rlm' = [rlm EXCEPT ![r] = RlmArgs(config[r], environ)]
  /\ \/ Advance(r) /\ UNCHANGED <<raised, failure>>
     \/ \E e \in Failures : Except(r, e) /\ failure' = [failure EXCEPT ![r] = e]
  /\ UNCHANGED <<environ, rlm_available, cwd, req, config, context, query, full_prompt,
                 result, calls>>

\* run_rlm_completion(): result = rlm.completion(full_prompt), which returns or raises
Complete(r, Results, Failures) ==
  /\ pc[r] = "completion"
  /\ calls' = [calls EXCEPT ![r] = Append(@, full_prompt[r])]
  /\ \/ \E res \in Results :
          result' = [result EXCEPT ![r] = res] /\ Advance(r) /\ UNCHANGED <<raised, failure>>
     \/ \E e \in Failures :
          Except(r, e) /\ failure' = [failure EXCEPT ![r] = e] /\ UNCHANGED result
  /\ UNCHANGED <<environ, rlm_available, cwd, req, config, context, query, full_prompt,
                 rlm>>

\* run_rlm_completion(): the CompletionResponse of the result, returned and serialised
NormalizeAndReturn(r) ==
  /\ pc[r] = "normalize"
  /\ LET n == Normalize(result[r])
     IN IF n.ok THEN Respond(r, OkResponse(n.response)) /\ UNCHANGED raised
        ELSE Except(r, n.exc)
  /\ UNCHANGED <<environ, rlm_available, cwd, req, config, context, query, full_prompt,
                 rlm, result, failure, calls>>

ProviderError == Exc("RuntimeError", Str("provider error"))
\* the engine is installed, a module it imports when built or run is not
BackendImportError == Exc("ImportError", Str("No module named 'anthropic'"))
\* zipimport.ZipImportError, a subclass of ImportError
ZipImportError ==
  ExcOf("ZipImportError", <<"ImportError", "Exception", "BaseException">>,
        Str("bad zip"))
\* asyncio.CancelledError, which is no Exception
CancelledError == ExcOf("CancelledError", <<"BaseException">>, Str("cancelled"))

\* one step of the handler of request r
Step(r, Requests, Results, Failures) ==
  \/ Receive(r, Requests)
  \/ Validate(r)
  \/ ParseConfig(r)
  \/ Adapt(r)
  \/ Import(r)
  \/ Prompt(r)
  \/ Chdir(r)
  \/ Construct(r, Failures)
  \/ Complete(r, Results, Failures)
  \/ NormalizeAndReturn(r)

(***************************************************************************)
(* Inputs.                                                                 *)
(***************************************************************************)
Text(s) == JStr(Str(s))

\* no variable set: the hardcoded fallbacks apply
EnvUnset ==
  [RLM_BACKEND |-> JNull, RLM_MODEL |-> JNull, RLM_MAX_RECURSION |-> JNull,
   OPENROUTER_API_KEY |-> JNull, OPENAI_API_KEY |-> JNull, ANTHROPIC_API_KEY |-> JNull]
EnvSet ==
  [RLM_BACKEND |-> Text("openai"), RLM_MODEL |-> Text("gpt-x"),
   RLM_MAX_RECURSION |-> Text("25"),
   OPENROUTER_API_KEY |-> Text(""), OPENAI_API_KEY |-> Text("sk-1"),
   ANTHROPIC_API_KEY |-> JNull]
\* the depth written with blanks, a sign and an underscore
EnvSigned == [EnvUnset EXCEPT !.RLM_MAX_RECURSION = Text(" -1_7\n")]
\* a depth int() rejects: the server does not start
EnvBroken == [EnvUnset EXCEPT !.RLM_MAX_RECURSION = Text("")]

\* all sequences over S of length 0..n
SeqsUpTo(S, n) == UNION {[1..k -> S] : k \in 0..n}

User(content) == Turn(Text("user"), Text(content))
Messages(turns) == [body |-> Body(JList(turns), Missing, Missing)]

\* what the engine returns: objects with the attributes that are given
UsageSummary(prompt_tokens, input_tokens, completion_tokens, output_tokens) ==
  [t |-> "object", cls |-> Str("UsageSummary"),
   prompt_tokens |-> prompt_tokens, input_tokens |-> input_tokens,
   completion_tokens |-> completion_tokens, output_tokens |-> output_tokens]
Result(response, usage_summary, depth, execution_time) ==
  [t |-> "object", cls |-> Str("RLMChatCompletion"),
   response |-> response, usage_summary |-> usage_summary,
   depth |-> depth, execution_time |-> execution_time]

Usage1 == UsageSummary(JInt(11), JInt(12), Missing, JInt(7))
Result1 == Result(Text("4"), Usage1, JInt(2), Missing)

\* the value of key in d, Missing when d has no such key or is no dict
Key(d, key) == IF d.t = "dict" THEN Get(d, key, Missing) ELSE Missing

(***************************************************************************)
(* Spec: concurrent requests.                                              *)
(***************************************************************************)
SpecRequests ==
  { [body |-> Missing],
    [body |-> Body(Missing, Missing, Missing)],
    [body |-> Body(JList(<<>>), Missing, Missing)],
    [body |-> Body(Missing, Text("m"), Missing)],
    [body |-> JList(<<JInt(1)>>)],
    [body |-> Body(JDict(<<>>), Missing, Missing)],
    [body |-> Body(JInt(5), Missing, Missing)],
    [body |-> Body(Text("abc"), Missing, Missing)],
    [body |-> Body(JList(<<User("Hi")>>), Missing, JNull)],
    Messages(<<User("Hi")>>),
    Messages(<<Turn(JNull, Text("Hi")), User("Hello")>>),
    [body |-> Body(JList(<<User("Hi"), Turn(Text("assistant"), Text("Hello")),
                           Turn(Missing, JNull)>>),
                   Missing,
                   ConfigData(Text("anthropic"), Missing, JInt(0), Missing))] }
SpecResults == {Result1, Result(JNull, Usage1, JInt(2), Missing)}
SpecFailures == {ProviderError, BackendImportError, ZipImportError}

Init == InitWith({EnvUnset}, {LaunchDir})
Next == \E r \in Reqs : Step(r, SpecRequests, SpecResults, SpecFailures)
Spec == Init /\ [][Next]_vars

(***************************************************************************)
(* SpecAdapter: messages_to_context called on its own, on every list of    *)
(* at most MaxTurns turns over AdapterTurns, on the documented example and *)
(* on values that are no list.                                             *)
(***************************************************************************)
\* a role with a letter whose upper case is two letters
Strasse == Str("Stra") \o <<223>> \o Str("e")
\* a content that is a list
ListContent == JList(<<JInt(5), Text("a'b")>>)

AdapterRoles == {Missing, JNull, Text("Assistant"), JStr(Strasse)}
AdapterContents == {Missing, JNull, Text("Hi"), ListContent}
AdapterTurns ==
  {Turn(role, content) : role \in AdapterRoles, content \in AdapterContents}
    \cup {Text("x")}
Example ==
  <<User("Hi"), Turn(Text("assistant"), Text("Hello")), User("What's 2+2?")>>
AdapterInputs ==
  {JList(turns) : turns \in SeqsUpTo(AdapterTurns, MaxTurns) \cup {Example}}
    \cup {JNull, Text(""), Text("ab"), JInt(5), JBool(TRUE), JDict(<<>>),
          User("Hi")}

InitAdapter ==
  /\ InitWith({EnvUnset}, {LaunchDir})
  /\ rlm_available

\* messages_to_context(messages) is called and returns or raises
CallAdapter(r, Inputs) ==
  /\ pc[r] = "idle"
  /\ \E messages \in Inputs :
       LET a == messages_to_context(messages)
       IN /\ req' = [req EXCEPT ![r] = [messages |-> messages]]
          /\ context' = [context EXCEPT ![r] = IF a.ok THEN JStr(a.context) ELSE @]
          /\ query' = [query EXCEPT ![r] = IF a.ok THEN a.query ELSE @]
          /\ raised' = [raised EXCEPT ![r] = IF a.ok THEN @ ELSE a.exc]
          /\ pc' = [pc EXCEPT ![r] = IF a.ok THEN "returned" ELSE "raised"]
  /\ UNCHANGED <<environ, rlm_available, cwd, config, full_prompt, rlm, result,
                 failure, calls, sent, trace>>

NextAdapter == CallAdapter(1, AdapterInputs)
SpecAdapter == InitAdapter /\ [][NextAdapter]_vars

\* the label the claim gives a role: the role in upper case, USER when absent
C1_Label(role) ==
  CASE role = Missing -> Str("USER")
    [] role = Text("user") -> Str("USER")
    [] role = Text("Assistant") -> Str("ASSISTANT")
    [] role = Text("assistant") -> Str("ASSISTANT")
    [] role = JStr(Strasse) -> Str("STRASSE")

\* the text the claim gives a content: the content, empty when absent (a content
\* that is not text appears as Python prints it)
C1_Text(content) ==
  CASE content = Missing -> <<>>
    [] content = JNull -> Str("None")
    [] content = ListContent -> Str("[5, \"a'b\"]")
    [] OTHER -> content.v

C1_Block(turn) ==
  Str("[") \o C1_Label(Key(turn, "role")) \o Str("]: ") \o C1_Text(Key(turn, "content"))

RECURSIVE C1_Offset(_, _)
\* where block i starts in the context: after the blocks before it and a
\* blank line (two line feeds) after each of them
C1_Offset(m, i) ==
  IF i = 1 THEN 1 ELSE C1_Offset(m, i - 1) + Len(C1_Block(m[i - 1])) + 2

C1_ExampleContext == Text("[USER]: Hi\n\n[ASSISTANT]: Hello")
C1_ExampleQuery == Text("What's 2+2?")

(* C1: when messages_to_context returns on a non-empty list, query is the   *)
(* last turn's content (the empty string when it has none) and context is   *)
(* exactly the len-1 blocks "[ROLE]: content" of the other turns, in        *)
(* order, a blank line between consecutive blocks and nothing else; on the  *)
(* empty list it returns ("", "").                                          *)
C1_ContextAndQuery ==
  \A r \in Reqs :
    (pc[r] = "returned" /\ req[r].messages.t = "list") =>
      LET m == req[r].messages.items
          n == Len(m)
      IN /\ n = 0 => context[r] = JStr(<<>>) /\ query[r] = JStr(<<>>)
         /\ n > 0 =>
              /\ query[r] = (IF Key(m[n], "content") = Missing THEN JStr(<<>>)
                             ELSE Key(m[n], "content"))
              /\ Len(context[r].v) = C1_Offset(m, n) - (IF n = 1 THEN 1 ELSE 3)
              /\ \A i \in 1..(n - 1) :
                   SubSeq(context[r].v, C1_Offset(m, i),
                          C1_Offset(m, i) + Len(C1_Block(m[i])) - 1) = C1_Block(m[i])
              /\ \A i \in 2..(n - 1) :
                   SubSeq(context[r].v, C1_Offset(m, i) - 2, C1_Offset(m, i) - 1)
                     = <<10, 10>>
         /\ m = Example =>
              /\ context[r] = C1_ExampleContext
              /\ query[r] = C1_ExampleQuery

C1_WitnessContext == Text("[STRASSE]: Hi\n\n[USER]: [5, \"a'b\"]")

\* the adapter returned on three turns, the first with a role in mixed case
\* whose upper case is longer, the second with no role and a list for content
C1_Witness ==
  \E r \in Reqs :
    /\ pc[r] = "returned"
    /\ req[r].messages.t = "list"
    /\ Len(req[r].messages.items) = 3
    /\ Key(req[r].messages.items[1], "role") = JStr(Strasse)
    /\ Key(req[r].messages.items[2], "role") = Missing
    /\ context[r] = C1_WitnessContext

(* C2: messages_to_context is total: on every list of turns, malformed     *)
(* turns included, it returns a (context, query) pair and never raises.    *)
C2_AdapterNeverRaises ==
  \A r \in Reqs :
    (req[r] # None /\ req[r].messages.t = "list") => pc[r] # "raised"

(***************************************************************************)
(* SpecConfig: one request, every shape of the rlmConfig override, with    *)
(* the environment's defaults set and unset.                               *)
(***************************************************************************)
ConfigOverrides ==
  {ConfigData(b, m, d, e) :
     b \in {Missing, JNull, Text("anthropic")},
     m \in {Missing, Text("claude-x")},
     d \in {Missing, JInt(0), JInt(-1), JInt(1000000)},
     e \in {Missing, Text("docker")}}
ConfigRequests ==
  {[body |-> Body(JList(<<User("Hi")>>), Missing, c)] :
     c \in ConfigOverrides \cup {Missing, JNull}}

InitConfig == InitWith({EnvUnset, EnvSet, EnvSigned, EnvBroken}, {LaunchDir})
NextConfig == Step(1, ConfigRequests, {Result1}, {ProviderError})
SpecConfig == InitConfig /\ [][NextConfig]_vars

\* the process-wide default of each field, as the start-up environment gives it
C4_Default ==
  CASE environ = EnvSet ->
         [backend |-> Text("openai"), model_name |-> Text("gpt-x"),
          max_recursion_depth |-> JInt(25)]
    [] environ = EnvSigned ->
         [backend |-> Text("openrouter"),
          model_name |-> Text("google/gemini-3-flash-preview"),
          max_recursion_depth |-> JInt(-17)]
    [] environ = EnvUnset ->
         [backend |-> Text("openrouter"),
          model_name |-> Text("google/gemini-3-flash-preview"),
          max_recursion_depth |-> JInt(10)]

C4_Field(given, default) == IF given = Missing THEN default ELSE given

(* C4: each field of the resolved RlmConfig is the value the request's     *)
(* rlmConfig gives under its external name, unchanged and unvalidated, and *)
(* the process default ("local" for environment) when the field or the     *)
(* whole override is absent.                                               *)
C4_ConfigResolution ==
  \A r \in Reqs :
    config[r] # None =>
      LET o == Key(req[r].body, "rlmConfig")
      IN /\ config[r].backend = C4_Field(Key(o, "backend"), C4_Default.backend)
         /\ config[r].model_name = C4_Field(Key(o, "modelName"), C4_Default.model_name)
         /\ config[r].max_recursion_depth =
              C4_Field(Key(o, "maxRecursionDepth"), C4_Default.max_recursion_depth)
         /\ config[r].environment = C4_Field(Key(o, "environment"), Text("local"))

\* a config resolved from an override that gives an out-of-range depth and
\* no backend, under defaults taken from the environment
C4_Witness ==
  \E r \in Reqs :
    /\ config[r] # None
    /\ environ = EnvSet
    /\ Key(req[r].body, "rlmConfig") # Missing
    /\ Key(Key(req[r].body, "rlmConfig"), "backend") = Missing
    /\ config[r].backend = Text("openai")
    /\ config[r].max_recursion_depth = JInt(-1)

(***************************************************************************)
(* SpecEngine: one request, every shape of the engine's result.            *)
(***************************************************************************)
LongQuery ==
  "12345678901234567890123456789012345678901234567890123456789012345678901234567890123456789012345abcdeFGHIJklmnopqrstuvwxy"

\* a query that is a list
ListQuery == JList(<<JInt(1), Text("a")>>)

EngineRequests ==
  { [body |-> Missing],
    Messages(<<User("")>>),
    Messages(<<User("Hi")>>),
    Messages(<<User(LongQuery)>>),
    Messages(<<Turn(Text("user"), Missing)>>),
    Messages(<<Turn(Text("user"), JNull)>>),
    Messages(<<Turn(Text("user"), JDict(<<>>))>>),
    Messages(<<User("Hi"), Turn(Text("user"), JInt(5))>>),
    Messages(<<User("Hi"), Turn(Text("user"), ListQuery)>>),
    Messages(<<Turn(Text("system"), Text("")), User(LongQuery)>>),
    Messages(<<User("Hi"), Turn(Text("assistant"), Text("Hello")), User("")>>),
    Messages(Example) }

UsageSummaries ==
  {UsageSummary(a, b, c, d) :
     a \in {Missing, JNull, JInt(0), JInt(11)},
     b \in {Missing, JInt(0), JInt(12)},
     c \in {Missing, JNull, JInt(0), JInt(21)},
     d \in {Missing, JInt(0), JInt(22)}}
EngineResults ==
  {Result(t, u, d, x) :
     t \in {Text("4"), JNull},
     u \in UsageSummaries \cup {Missing, JNull},
     d \in {Missing, JNull, JInt(2)},
     x \in {Missing, JInt(3)}}
    \cup {JNull, Result(JDict(<<>>), JDict(<<>>), Missing, Missing)}
EngineFailures == {ProviderError, BackendImportError, ZipImportError, CancelledError}

InitEngine == InitWith({EnvUnset}, {LaunchDir})
NextEngine == Step(1, EngineRequests, EngineResults, EngineFailures)
SpecEngine == InitEngine /\ [][NextEngine]_vars

\* the orchestrator was entered for request r
EnteredOrchestrator(r) ==
  \E i \in 1..Len(trace[r]) : trace[r][i] = "import"

C5_Label == Str("[RLM MOCK] Would process query: ")

(* C5: with the engine not installed, run_rlm_completion returns, for      *)
(* every context, config and text query, a response whose metadata has     *)
(* mock = true and whose text is the fixed label, then the first 100       *)
(* characters of query, then "...": a function of query alone; and the     *)
(* endpoint answers 200 with it.                                           *)
C5_MockWhenUnavailable ==
  \A r \in Reqs :
    (~rlm_available /\ pc[r] = "done" /\ EnteredOrchestrator(r) /\ IsStr(query[r])) =>
      LET q == query[r].v
          k == IF Len(q) < 100 THEN Len(q) ELSE 100
      IN /\ raised[r] = None
         /\ Len(sent[r]) = 1
         /\ sent[r][1].status = 200
         /\ Key(Key(sent[r][1].body, "metadata"), "mock") = JBool(TRUE)
         /\ LET text == Key(sent[r][1].body, "text").v
            IN /\ Len(text) = 32 + k + 3
               /\ SubSeq(text, 1, 32) = C5_Label
               /\ SubSeq(text, 33, 32 + k) = SubSeq(q, 1, k)
               /\ SubSeq(text, 33 + k, 35 + k) = <<46, 46, 46>>

\* the mock response of a query longer than 100 characters was sent
C5_Witness ==
  \E r \in Reqs :
    /\ ~rlm_available
    /\ pc[r] = "done"
    /\ IsStr(query[r])
    /\ Len(query[r].v) > 100
    /\ context[r] # JStr(<<>>)
    /\ sent[r][1].status = 200

C7_ContextLabel == Str("Previous conversation context:\n")
C7_RequestLabel == Str("\n\nCurrent request:\n")
\* the text of a query in the prompt: the query, a list as Python prints it
C7_QueryText(q) == IF q = ListQuery THEN Str("[1, 'a']") ELSE q.v
C7_ExamplePrompt ==
  Text("Previous conversation context:\n[USER]: Hi\n\n[ASSISTANT]: Hello\n\nCurrent request:\nWhat's 2+2?")

(* C7: the prompt passed to the engine is query itself when context is     *)
(* empty, as it is for every single-turn request, and otherwise the        *)
(* "Previous conversation context:" label and context, a blank line, then  *)
(* the "Current request:" label and query.                                 *)
C7_Prompt ==
  \A r \in Reqs :
    \A i \in 1..Len(calls[r]) :
      LET turns == Key(req[r].body, "messages").items
      IN /\ context[r] = JStr(<<>>) => calls[r][i] = query[r]
         /\ Len(turns) = 1 =>
              calls[r][i] = (IF Key(turns[1], "content") = Missing THEN JStr(<<>>)
                             ELSE Key(turns[1], "content"))
         /\ context[r] # JStr(<<>>) =>
              calls[r][i] = JStr(C7_ContextLabel \o context[r].v
                                  \o C7_RequestLabel \o C7_QueryText(query[r]))
         /\ req[r] = Messages(Example) => calls[r][i] = C7_ExamplePrompt

C7_WitnessContext == Text("[USER]: Hi\n\n[ASSISTANT]: Hello")

\* the engine was called for a request of several turns
C7_Witness ==
  \E r \in Reqs :
    /\ Len(calls[r]) = 1
    /\ context[r] = C7_WitnessContext
    /\ query[r] = JStr(<<>>)

\* a usage or result field that is there and holds a count other than 0
C8_Populated(x) == x # Missing /\ x # JNull /\ x # JInt(0)
C8_FirstPopulated(a, b) ==
  IF C8_Populated(a) THEN a ELSE IF C8_Populated(b) THEN b ELSE JInt(0)

\* the attribute of an object the engine returned, Missing when it is not there
C8_Field(o, name) == IF o.t = "object" THEN o[name] ELSE Missing

(* C8: when the engine call returned a result with a text, the request is  *)
(* answered 200 with that text unchanged; when the result has a usage      *)
(* summary, promptTokens is the first populated of prompt_tokens and       *)
(* input_tokens, completionTokens the first populated of completion_tokens *)
(* and output_tokens, each 0 when neither is; recursionDepth and           *)
(* executionTime are the result's depth and execution_time, 0 when absent. *)
C8_Normalized ==
  \A r \in Reqs :
    (pc[r] = "done" /\ result[r] # None /\ IsStr(C8_Field(result[r], "response"))) =>
      LET res == result[r]
          u == res.usage_summary
          body == sent[r][1].body
      IN /\ sent[r][1].status = 200
         /\ Key(body, "text") = res.response
         /\ (u # Missing /\ u # JNull) =>
              /\ Key(Key(body, "usage"), "promptTokens") =
                   C8_FirstPopulated(u.prompt_tokens, u.input_tokens)
              /\ Key(Key(body, "usage"), "completionTokens") =
                   C8_FirstPopulated(u.completion_tokens, u.output_tokens)
         /\ Key(Key(body, "metadata"), "recursionDepth") =
              (IF res.depth = Missing THEN JInt(0) ELSE res.depth)
         /\ Key(Key(body, "metadata"), "executionTime") =
              (IF res.execution_time = Missing THEN JInt(0) ELSE res.execution_time)

\* a response normalised from a result whose usage names the token counts both
\* ways, the first name unpopulated for the completion tokens, and has no depth
C8_Witness ==
  \E r \in Reqs :
    /\ pc[r] = "done"
    /\ result[r] # None
    /\ result[r] = Result(Text("4"), UsageSummary(JInt(11), JInt(12), JInt(0), JInt(22)),
                          Missing, Missing)
    /\ sent[r][1].status = 200
    /\ Key(sent[r][1].body, "usage") =
         JDict(<< <<Str("promptTokens"), JInt(11)>>,
                  <<Str("completionTokens"), JInt(22)>> >>)
    /\ Key(Key(sent[r][1].body, "metadata"), "recursionDepth") = JInt(0)

\* the request body of r is a JSON object whose messages list is missing or empty
C3_NoMessages(r) ==
  /\ req[r].body # Missing
  /\ req[r].body.t = "dict"
  /\ Key(req[r].body, "messages") \in {Missing, JList(<<>>)}

C3_NoBody == ErrorResponse(400, Str("No JSON body provided"))
C3_NoMessagesGiven == ErrorResponse(400, Str("No messages provided"))

(* C3: a request with no JSON body is answered 400 "No JSON body           *)
(* provided", one whose body has a missing or empty messages list 400 "No  *)
(* messages provided"; neither reaches the adapter or the engine.          *)
C3_Validation ==
  \A r \in Reqs :
    pc[r] = "done" =>
      /\ req[r].body = Missing => sent[r] = <<C3_NoBody>>
      /\ C3_NoMessages(r) => sent[r] = <<C3_NoMessagesGiven>>
      /\ (req[r].body = Missing \/ C3_NoMessages(r)) =>
           context[r] = None /\ rlm[r] = None /\ calls[r] = <<>>

(* C6: when RLM(...) or rlm.completion raises on an installed engine, the  *)
(* failure leaves run_rlm_completion, no response (and no mock) is         *)
(* returned for it, and the endpoint answers 500 with the failure's        *)
(* message.                                                                *)
C6_EngineFailurePropagates ==
  \A r \in Reqs :
    (pc[r] = "done" /\ failure[r] # None) =>
      /\ raised[r] = failure[r]
      /\ sent[r] = <<ErrorResponse(500, failure[r].msg)>>

\* the stages of a request that passes validation, in the order the claim gives:
\* resolve config, adapt messages, build prompt, invoke engine, normalize
C9_Pipeline ==
  <<"get_json", "parse_config", "adapt", "import", "prompt", "chdir",
    "construct", "completion", "normalize">>

(* C9: a request goes through the stages once each and in order, as far as *)
(* it gets; the engine is called at most once; a failed or missing engine  *)
(* ends the request at once, with no second attempt; once the engine call  *)
(* returned, only the normalisation is left; and a request ends with       *)
(* exactly one response, of status 200, 400 or 500 (200 or 500 once it     *)
(* passed validation).                                                     *)
C9_LinearPipeline ==
  \A r \in Reqs :
    /\ pc[r] \in {"idle", "done"} \cup {C9_Pipeline[i] : i \in 1..Len(C9_Pipeline)}
    /\ failure[r] # None => pc[r] = "done"
    /\ result[r] # None => pc[r] \in {"normalize", "done"}
    /\ (~rlm_available /\ EnteredOrchestrator(r)) => pc[r] = "done"
    /\ Len(trace[r]) <= Len(C9_Pipeline)
    /\ \A i \in 1..Len(trace[r]) : trace[r][i] = C9_Pipeline[i]
    /\ Len(calls[r]) <= 1
    /\ (failure[r] # None \/ ~rlm_available) => result[r] = None
    /\ Len(sent[r]) = (IF pc[r] = "done" THEN 1 ELSE 0)
    /\ pc[r] = "done" =>
         /\ sent[r][1].status \in {200, 400, 500}
         /\ Len(trace[r]) > 1 => sent[r][1].status \in {200, 500}
         /\ Len(trace[r]) = 1 => sent[r][1].status \in {400, 500}

\* a request whose engine call failed has been answered, the engine called once
C9_Witness ==
  \E r \in Reqs :
    /\ pc[r] = "done"
    /\ Len(calls[r]) = 1
    /\ failure[r] = ProviderError
    /\ sent[r][1].status = 500
    /\ trace[r] = SubSeq(C9_Pipeline, 1, 8)

(* C10 as stated: handling a request writes no state shared between        *)
(* requests.                                                               *)
C10_NoSharedWrite ==
  [][<<environ, rlm_available, cwd>>' = <<environ, rlm_available, cwd>>]_vars

\* the values of request r
C10_Own(r) ==
  <<pc[r], req[r], config[r], context[r], query[r], full_prompt[r], rlm[r],
    result[r], failure[r], raised[r], calls[r], sent[r], trace[r]>>

\* the inputs of request r: the request and what the engine did for it
C10_Inputs(r) == <<req[r], result[r], failure[r]>>

(* C10 amended: the one shared state a request writes is the process's     *)
(* working directory, which is only ever set to the server's directory;    *)
(* every other value is the request's own, a step of one request changes   *)
(* no value of another, and two requests with the same body and the same   *)
(* engine outcome have the same config, prompt and response whatever the   *)
(* interleaving.                                                           *)
C10_RequestsIndependent ==
  [][/\ environ' = environ
     /\ rlm_available' = rlm_available
     /\ cwd' \in {cwd, WorkDir}
     /\ \A r \in Reqs : pc'[r] = pc[r] => C10_Own(r)' = C10_Own(r)
     /\ \A r1, r2 \in Reqs :
          (pc'[r1] = "done" /\ pc'[r2] = "done" /\ C10_Inputs(r1)' = C10_Inputs(r2)')
            => /\ config'[r1] = config'[r2]
               /\ full_prompt'[r1] = full_prompt'[r2]
               /\ sent'[r1] = sent'[r2]]_vars

\* two requests with the same body were both answered from the engine's result,
\* and the working directory has been changed on the way
C10_Witness ==
  \E r1, r2 \in Reqs :
    /\ r1 # r2
    /\ pc[r1] = "done" /\ pc[r2] = "done"
    /\ req[r1] = req[r2]
    /\ result[r1] = Result1 /\ result[r2] = Result1
    /\ sent[r1][1].status = 200
    /\ cwd = WorkDir

=======================================================================
